---------------------------- MODULE Spec2Model ----------------------------
(***************************************************************************)
(* A model of the two programs of the repository:                          *)
(*                                                                         *)
(*   - backend/app/main.py: a FastAPI application with one CORSMiddleware  *)
(*     and one GET route, /api/v1/health-check.  An exchange is a request  *)
(*     that has been received and, later, the response sent for it.  The   *)
(*     calls main.py makes (FastAPI(), add_middleware(CORSMiddleware, ..), *)
(*     @app.get) are modelled by what the pinned libraries do with the     *)
(*     arguments main.py passes (fastapi 0.104.1 / starlette 0.27).        *)
(*                                                                         *)
(*   - setup-script.py: the scaffolding script, one statement per step,    *)
(*     over a file system with a current working directory.                *)
(***************************************************************************)
EXTENDS Naturals, Sequences, FiniteSets, TLC

VARIABLES
    app,        \* the FastAPI application object built by main.py
    inflight,   \* exchanges of the service: received requests and sent responses
    pc,         \* setup_project: index of the next statement, or a final state
    sub,        \* setup_project: position inside create_file ("call" | "open")
    cwd,        \* setup_project: the process's working directory (absolute)
    dirs,       \* file system: the directories that exist (absolute paths)
    files,      \* file system: the regular files that exist (absolute paths)
    made,       \* the paths this run of setup_project created, in order
    out,        \* the lines setup_project printed
    npm         \* how the npm subprocess ended: "none" | "ok" | "failed"

svc_vars == <<app, inflight>>
setup_vars == <<pc, sub, cwd, dirs, files, made, out, npm>>
vars == <<app, inflight, pc, sub, cwd, dirs, files, made, out, npm>>

\* Python's None: an absent header, an absent value.
None == "<None>"

(***************************************************************************)
(* Bounds of the model.                                                    *)
(***************************************************************************)
\* The number of exchanges the service holds at once (concurrent requests).
MaxInflight == 2

(***************************************************************************)
(* Helpers.                                                                *)
(***************************************************************************)
\* str.join: ", ".join(seq)
RECURSIVE Join(_, _)
Join(sep, seq) ==
    IF seq = <<>> THEN ""
    ELSE IF Len(seq) = 1 THEN seq[1]
    ELSE seq[1] \o sep \o Join(sep, Tail(seq))

Range(seq) == {seq[i] : i \in DOMAIN seq}

\* The elements of a finite set, listed once each.
SetToSeq(S) ==
    CHOOSE seq \in [1..Cardinality(S) -> S] : Range(seq) = S

\* str.lower on the header names the model uses.
Lower(s) ==
    CASE s = "Accept" -> "accept"
      [] s = "Accept-Language" -> "accept-language"
      [] s = "Content-Language" -> "content-language"
      [] s = "Content-Type" -> "content-type"
      [] OTHER -> s

\* dict.update: the entries of new replace those of old.
Update(old, new) == new @@ old

EmptyHeaders == [k \in {} |-> ""]

(***************************************************************************)
(* main.py: the application.                                               *)
(***************************************************************************)
\* main.py:8 (and two variants of it: every origin, another port)
allow_origins_star == <<"*">>
allow_origins_other_port == <<"http://localhost:3000">>
allow_origins == <<"http://localhost:5173">>

\* main.py:9 (and a variant: credentials not allowed)
allow_credentials_off == FALSE
allow_credentials == TRUE

\* main.py:10 (and a variant: GET alone)
allow_methods_get_only == <<"GET">>
allow_methods == <<"*">>

\* main.py:11
allow_headers == <<"*">>

\* main.py:14, the path of the one route.
health_check_path == "/api/v1/health-check"

\* main.py:14, @app.get: FastAPI's APIRoute of a GET operation accepts GET
\* alone (it does not add HEAD).  The variant also accepts POST.
health_check_methods_with_post == {"GET", "POST"}
health_check_methods == {"GET"}

\* main.py:15-16, the handler's return value (and two variants: another
\* literal, and a value that depends on the requests in flight).
health_check_ok == [status |-> "ok"]
health_check_stateful ==
    [status |-> IF Cardinality(inflight) > 1 THEN "busy" ELSE "healthy"]
health_check == [status |-> "healthy"]

\* The JSON rendering of a one-key mapping of strings (JSONResponse.render:
\* compact separators, key and value quoted).
RenderJSON(d) ==
    LET key == CHOOSE k \in DOMAIN d : TRUE
    IN  "{\"" \o key \o "\":\"" \o d[key] \o "\"}"

\* starlette.middleware.cors: the methods "*" stands for, and the default
\* max_age, neither of which main.py overrides.
ALL_METHODS == <<"DELETE", "GET", "HEAD", "OPTIONS", "PATCH", "POST", "PUT">>
SAFELISTED_HEADERS == <<"Accept", "Accept-Language", "Content-Language", "Content-Type">>
max_age == "600"

\* main.py:6-12, CORSMiddleware.__init__ on the arguments of add_middleware.
CORSMiddleware ==
    LET methods == IF "*" \in Range(allow_methods) THEN ALL_METHODS ELSE allow_methods
        allow_all_origins == "*" \in Range(allow_origins)
        allow_all_headers == "*" \in Range(allow_headers)
        explicit == (~allow_all_origins) \/ allow_credentials
        \* sorted(SAFELISTED_HEADERS | set(allow_headers)): "*" sorts first.
        headers == allow_headers \o SAFELISTED_HEADERS
        simple0 == IF allow_all_origins
                   THEN [k \in {"access-control-allow-origin"} |-> "*"]
                   ELSE EmptyHeaders
        simple1 == IF allow_credentials
                   THEN Update(simple0, [k \in {"access-control-allow-credentials"} |-> "true"])
                   ELSE simple0
        pre0 == IF explicit
                THEN [k \in {"vary"} |-> "Origin"]
                ELSE [k \in {"access-control-allow-origin"} |-> "*"]
        pre1 == Update(pre0,
                  [k \in {"access-control-allow-methods", "access-control-max-age"} |->
                      IF k = "access-control-allow-methods"
                      THEN Join(", ", methods) ELSE max_age])
        \* allow_headers contains "*": no Access-Control-Allow-Headers is preset.
        pre2 == IF ~allow_all_headers
                THEN Update(pre1, [k \in {"access-control-allow-headers"} |->
                                      Join(", ", headers)])
                ELSE pre1
        pre3 == IF allow_credentials
                THEN Update(pre2, [k \in {"access-control-allow-credentials"} |-> "true"])
                ELSE pre2
    IN  [allow_origins |-> Range(allow_origins),
         allow_methods |-> Range(methods),
         allow_headers |-> {Lower(x) : x \in Range(headers)},
         allow_all_origins |-> allow_all_origins,
         allow_all_headers |-> allow_all_headers,
         preflight_explicit_allow_origin |-> explicit,
         simple_headers |-> simple1,
         preflight_headers |-> pre3]

\* main.py:4-16, the application after the module has been imported.
FastAPI ==
    [title |-> "Fantasy Football League API",
     user_middleware |-> <<CORSMiddleware>>,
     routes |-> {[path |-> health_check_path, methods |-> health_check_methods]}]

(***************************************************************************)
(* Requests.                                                               *)
(***************************************************************************)
Methods == {"GET", "HEAD", "POST", "OPTIONS"}
Paths == {health_check_path, "/api/v1/players"}
Origins == {"http://localhost:5173", "http://localhost:3000"}
RequestMethods == {"GET", "BREW"}
RequestHeaders == {"x-token"}
Cookies == {"session=1"}

\* The headers of a request that the application reads.  A browser sends
\* Access-Control-Request-Headers only together with
\* Access-Control-Request-Method, and a cookie only on an actual cross-origin
\* request, never on a preflight.  A request without Origin passes the
\* middleware untouched whatever else it carries: one such combination with
\* Access-Control-Request-Method is kept.
HeaderSets ==
    {h \in [origin : Origins \cup {None},
            acrm : RequestMethods \cup {None},
            acrh : RequestHeaders \cup {None},
            cookie : Cookies \cup {None}] :
        /\ h.acrh # None => (h.acrm = "GET" /\ h.origin # None)
        /\ h.acrm = "BREW" => h.origin # None
        /\ h.cookie # None => (h.origin # None /\ h.acrm = None)}

Requests == [method : Methods, path : Paths, headers : HeaderSets]

NoResponse == [status |-> 0, body |-> "", headers |-> EmptyHeaders, by |-> None]

(***************************************************************************)
(* The routing layer under the middleware (Router.app, Route.handle and    *)
(* FastAPI's handler of HTTPException).                                    *)
(***************************************************************************)
JSONHeaders == [k \in {"content-type"} |-> "application/json"]

Router(a, req) ==
    LET onPath == {r \in a.routes : r.path = req.path}
        full == {r \in onPath : req.method \in r.methods}
    IN  IF full # {}
        THEN \* Match.FULL: the endpoint runs and its mapping is rendered.
             [status |-> 200, body |-> RenderJSON(health_check),
              headers |-> JSONHeaders, by |-> "health_check"]
        ELSE IF onPath # {}
        THEN \* Match.PARTIAL: HTTPException(405) with the Allow header.
             LET r == CHOOSE r \in onPath : TRUE
             IN  [status |-> 405,
                  body |-> RenderJSON([detail |-> "Method Not Allowed"]),
                  headers |-> Update(JSONHeaders,
                                     [k \in {"allow"} |-> Join(", ", SetToSeq(r.methods))]),
                  by |-> "router"]
        ELSE \* no route: HTTPException(404).
             [status |-> 404, body |-> RenderJSON([detail |-> "Not Found"]),
              headers |-> JSONHeaders, by |-> "router"]

(***************************************************************************)
(* CORSMiddleware, as configured at main.py:6-12.                          *)
(***************************************************************************)
is_allowed_origin(mw, origin) ==
    mw.allow_all_origins \/ origin \in mw.allow_origins

preflight_response(mw, h) ==
    LET originOK == is_allowed_origin(mw, h.origin)
        headers1 == IF originOK /\ mw.preflight_explicit_allow_origin
                    THEN Update(mw.preflight_headers,
                                [k \in {"access-control-allow-origin"} |-> h.origin])
                    ELSE mw.preflight_headers
        headers2 == IF mw.allow_all_headers /\ h.acrh # None
                    THEN Update(headers1,
                                [k \in {"access-control-allow-headers"} |-> h.acrh])
                    ELSE headers1
        failures == (IF originOK THEN <<>> ELSE <<"origin">>)
                    \o (IF h.acrm \in mw.allow_methods THEN <<>> ELSE <<"method">>)
                    \o (IF ~mw.allow_all_headers /\ h.acrh # None
                           /\ Lower(h.acrh) \notin mw.allow_headers
                        THEN <<"headers">> ELSE <<>>)
        plain == Update(headers2, [k \in {"content-type"} |-> "text/plain; charset=utf-8"])
    IN  IF failures # <<>>
        THEN [status |-> 400, body |-> "Disallowed CORS " \o Join(", ", failures),
              headers |-> plain, by |-> "CORSMiddleware"]
        ELSE [status |-> 200, body |-> "OK", headers |-> plain, by |-> "CORSMiddleware"]

\* CORSMiddleware.send: the headers added to the response of an actual request.
simple_response(mw, h, resp) ==
    LET headers1 == Update(resp.headers, mw.simple_headers)
        explicit == Update(headers1,
                      [k \in {"access-control-allow-origin", "vary"} |->
                          IF k = "vary" THEN "Origin" ELSE h.origin])
        headers2 == IF mw.allow_all_origins /\ h.cookie # None
                    THEN explicit
                    ELSE IF ~mw.allow_all_origins /\ is_allowed_origin(mw, h.origin)
                    THEN explicit
                    ELSE headers1
    IN  [resp EXCEPT !.headers = headers2]

\* CORSMiddleware.__call__ around the router: the response to a request.
ASGI(a, req) ==
    LET mw == a.user_middleware[1]
        h == req.headers
    IN  IF h.origin = None
        THEN Router(a, req)
        ELSE IF req.method = "OPTIONS" /\ h.acrm # None
        THEN preflight_response(mw, h)
        ELSE simple_response(mw, h, Router(a, req))

(***************************************************************************)
(* The service: exchanges are served independently, one task each.         *)
(***************************************************************************)
Received(req) == [req |-> req, stage |-> "received", resp |-> NoResponse]

SvcInit ==
    /\ app = FastAPI
    /\ inflight = {}

\* A request arrives and a task is created for it.
Receive(req) ==
    /\ Cardinality(inflight) < MaxInflight
    /\ inflight' = inflight \cup {Received(req)}
    /\ UNCHANGED app

\* The task of one request runs the application and sends the response.
Serve(x) ==
    /\ x.stage = "received"
    /\ inflight' = (inflight \ {x}) \cup
                     {[x EXCEPT !.stage = "sent", !.resp = ASGI(app, x.req)]}
    /\ UNCHANGED app

\* The client has read the response; the exchange is over.
Close(x) ==
    /\ x.stage = "sent"
    /\ inflight' = inflight \ {x}
    /\ UNCHANGED app
(***************************************************************************)
(* setup-script.py: paths.  A path is the sequence of its components; a    *)
(* relative path is resolved against the working directory.                *)
(***************************************************************************)
\* The directory the script is started in.
StartDir == <<"work">>

Parent(p) == SubSeq(p, 1, Len(p) - 1)
Name(p) == p[Len(p)]
IsPrefix(a, b) == Len(a) <= Len(b) /\ SubSeq(b, 1, Len(a)) = a
Prefixes(p) == [i \in 1..Len(p) |-> SubSeq(p, 1, i)]

\* A relative Path used by the process: the kernel resolves it against cwd.
Resolve(p) == cwd \o p

\* setup-script.py:14
root == <<"fantasy-football-app">>
\* setup-script.py:18
backend == root \o <<"backend">>
\* setup-script.py:75
frontend == root \o <<"frontend", "src">>
\* setup-script.py:93
docker == root \o <<"docker">>

\* setup-script.py:42-50
backend_dirs ==
    << <<"alembic", "versions">>,
       <<"app", "models">>,
       <<"app", "schemas">>,
       <<"app", "api", "v1", "endpoints">>,
       <<"app", "core">>,
       <<"app", "services">>,
       <<"tests", "api">> >>

\* setup-script.py:76-87
frontend_dirs ==
    << <<"components", "common">>,
       <<"components", "stats">>,
       <<"components", "posts">>,
       <<"pages">>, <<"hooks">>, <<"api">>, <<"types">>, <<"utils">>,
       <<"context">>, <<"styles">> >>

\* setup-script.py:72, subprocess.run(..., check=True) (and the variant
\* without check, where a failing npm does not raise)
check_off == FALSE
check == TRUE

(***************************************************************************)
(* setup_project as a list of statements, in program order.                *)
(***************************************************************************)
MkdirStmt(p, parents) == [op |-> "mkdir", path |-> p, parents |-> parents, text |-> ""]
CreateFileStmt(p) == [op |-> "create_file", path |-> p, parents |-> TRUE, text |-> ""]
PrintStmt(t) == [op |-> "print", path |-> <<>>, parents |-> FALSE, text |-> t]
ChdirStmt(p) == [op |-> "chdir", path |-> p, parents |-> FALSE, text |-> ""]
RunNpmStmt == [op |-> "npm", path |-> <<"frontend">>, parents |-> FALSE, text |-> ""]

\* setup-script.py:52-54, the loop over dirs unrolled.
RECURSIVE BackendLoop(_)
BackendLoop(ds) ==
    IF ds = <<>> THEN <<>>
    ELSE << MkdirStmt(backend \o Head(ds), TRUE),
            CreateFileStmt(backend \o Head(ds) \o <<"__init__.py">>) >>
         \o BackendLoop(Tail(ds))

\* setup-script.py:89-90, the loop over frontend_dirs unrolled.
RECURSIVE FrontendLoop(_)
FrontendLoop(ds) ==
    IF ds = <<>> THEN <<>>
    ELSE << MkdirStmt(frontend \o Head(ds), TRUE) >> \o FrontendLoop(Tail(ds))

SuccessMessage == "Project structure created successfully!"

\* setup-script.py:12-207
setup_project ==
    << MkdirStmt(root, FALSE),
       MkdirStmt(backend, FALSE),
       CreateFileStmt(backend \o <<"app", "__init__.py">>),
       CreateFileStmt(backend \o <<"app", "main.py">>) >>
    \o BackendLoop(backend_dirs)
    \o << CreateFileStmt(backend \o <<"requirements.txt">>),
          PrintStmt("Setting up frontend with Vite..."),
          ChdirStmt(root),
          RunNpmStmt >>
    \o FrontendLoop(frontend_dirs)
    \o << MkdirStmt(docker, FALSE),
          CreateFileStmt(docker \o <<"backend.Dockerfile">>),
          CreateFileStmt(docker \o <<"frontend.Dockerfile">>),
          CreateFileStmt(root \o <<"docker-compose.yml">>),
          CreateFileStmt(root \o <<"README.md">>),
          PrintStmt(SuccessMessage),
          PrintStmt("\nNext steps:"),
          PrintStmt("1. cd fantasy-football-app"),
          PrintStmt("2. cd frontend && npm install"),
          PrintStmt("3. cd ../backend"),
          PrintStmt("4. python -m venv venv"),
          PrintStmt("5. source venv/bin/activate"),
          PrintStmt("6. pip install -r requirements.txt") >>

\* The statement about to run.
Stmt == setup_project[pc]
Running == pc \in DOMAIN setup_project

(***************************************************************************)
(* The file system calls.                                                  *)
(***************************************************************************)
\* Path.mkdir(parents, exist_ok=True) of the absolute path a can proceed.
MkdirOK(a, parents) ==
    IF a \in dirs THEN TRUE
    ELSE IF a \in files THEN FALSE                          \* FileExistsError
    ELSE IF Parent(a) \in dirs THEN TRUE
    ELSE IF ~parents THEN FALSE                             \* FileNotFoundError
    ELSE \A i \in 1..Len(a) : SubSeq(a, 1, i) \notin files  \* NotADirectoryError

\* The directories that mkdir creates, outermost first.
MkdirNew(a) == SelectSeq(Prefixes(a), LAMBDA d : d \notin dirs)

Entry(kind, a) == [kind |-> kind, path |-> a]
Entries(kind, seq) == [i \in DOMAIN seq |-> Entry(kind, seq[i])]

\* pc once the script has returned, and once it has died of an exception.
Finished == Len(setup_project) + 1
Raised == Len(setup_project) + 2

SetupInitFS ==
    \/ /\ dirs = {<<>>, StartDir}
       /\ files = {}
    \/ /\ dirs = {<<>>, StartDir, StartDir \o root}
       /\ files = {}
    \/ /\ dirs = {<<>>, StartDir}
       /\ files = {StartDir \o root}

SetupInit ==
    /\ pc = 1
    /\ sub = "call"
    /\ cwd = StartDir
    /\ SetupInitFS
    /\ made = <<>>
    /\ out = <<>>
    /\ npm = "none"

\* The script before it is started, in an empty directory.
SetupIdle ==
    /\ pc = 1
    /\ sub = "call"
    /\ cwd = StartDir
    /\ dirs = {<<>>, StartDir}
    /\ files = {}
    /\ made = <<>>
    /\ out = <<>>
    /\ npm = "none"

\* A statement <path>.mkdir(...), setup-script.py:15, 19, 53, 90, 94.
Mkdir ==
    /\ Running /\ Stmt.op = "mkdir"
    /\ LET a == Resolve(Stmt.path)
       IN  IF MkdirOK(a, Stmt.parents)
           THEN /\ dirs' = dirs \cup Range(MkdirNew(a))
                /\ made' = made \o Entries("dir", MkdirNew(a))
                /\ pc' = pc + 1
           ELSE /\ pc' = Raised
                /\ UNCHANGED <<dirs, made>>
    /\ UNCHANGED <<sub, cwd, files, out, npm>>

\* create_file, setup-script.py:8: path.parent.mkdir(parents=True, exist_ok=True)
CreateFileMkdir ==
    /\ Running /\ Stmt.op = "create_file" /\ sub = "call"
    /\ LET a == Parent(Resolve(Stmt.path))
       IN  IF MkdirOK(a, TRUE)
           THEN /\ dirs' = dirs \cup Range(MkdirNew(a))
                /\ made' = made \o Entries("dir", MkdirNew(a))
                /\ sub' = "open"
                /\ pc' = pc
           ELSE /\ pc' = Raised
                /\ UNCHANGED <<dirs, made, sub>>
    /\ UNCHANGED <<cwd, files, out, npm>>

\* create_file, setup-script.py:9-10: open(path, 'w') and write.
CreateFileOpen ==
    /\ Running /\ Stmt.op = "create_file" /\ sub = "open"
    /\ LET a == Resolve(Stmt.path)
       IN  IF a \notin dirs
           THEN /\ files' = files \cup {a}
                /\ made' = Append(made, Entry("file", a))
                /\ pc' = pc + 1
           ELSE /\ pc' = Raised                             \* IsADirectoryError
                /\ UNCHANGED <<files, made>>
    /\ sub' = "call"
    /\ UNCHANGED <<cwd, dirs, out, npm>>

\* print(...), setup-script.py:70, 200-207.
PrintLine ==
    /\ Running /\ Stmt.op = "print"
    /\ out' = Append(out, Stmt.text)
    /\ pc' = pc + 1
    /\ UNCHANGED <<sub, cwd, dirs, files, made, npm>>

\* os.chdir(root), setup-script.py:71.
Chdir ==
    /\ Running /\ Stmt.op = "chdir"
    /\ IF Resolve(Stmt.path) \in dirs
       THEN cwd' = Resolve(Stmt.path) /\ pc' = pc + 1
       ELSE cwd' = cwd /\ pc' = Raised
    /\ UNCHANGED <<sub, dirs, files, made, out, npm>>

\* subprocess.run(["npm", "create", "vite@latest", "frontend", ...]),
\* setup-script.py:72: npm exits 0 having created ./frontend with its src.
NpmSucceeds ==
    /\ Running /\ Stmt.op = "npm"
    /\ npm' = "ok"
    /\ dirs' = dirs \cup {Resolve(Stmt.path), Resolve(Stmt.path \o <<"src">>)}
    /\ files' = files \cup {Resolve(Stmt.path \o <<"package.json">>),
                            Resolve(Stmt.path \o <<"src", "main.tsx">>)}
    /\ pc' = pc + 1
    /\ UNCHANGED <<sub, cwd, made, out>>

\* setup-script.py:72: npm exits with a failure, having created nothing;
\* with check=True subprocess.run raises CalledProcessError.
NpmFails ==
    /\ Running /\ Stmt.op = "npm"
    /\ npm' = "failed"
    /\ pc' = IF check THEN Raised ELSE pc + 1
    /\ UNCHANGED <<sub, cwd, dirs, files, made, out>>

(***************************************************************************)
(* Specifications.                                                         *)
(***************************************************************************)
Init == SvcInit /\ SetupIdle

Next ==
    \/ \E req \in Requests : Receive(req) /\ UNCHANGED setup_vars
    \/ \E x \in inflight : Serve(x) /\ UNCHANGED setup_vars
    \/ \E x \in inflight : Close(x) /\ UNCHANGED setup_vars

\* The service, serving concurrent requests.
Spec == Init /\ [][Next]_vars

SetupNext ==
    \/ Mkdir /\ UNCHANGED svc_vars
    \/ CreateFileMkdir /\ UNCHANGED svc_vars
    \/ CreateFileOpen /\ UNCHANGED svc_vars
    \/ PrintLine /\ UNCHANGED svc_vars
    \/ Chdir /\ UNCHANGED svc_vars
    \/ NpmSucceeds /\ UNCHANGED svc_vars
    \/ NpmFails /\ UNCHANGED svc_vars

SetupSpecInit == SvcInit /\ SetupInit

\* One run of the scaffolding script.
SetupSpec == SetupSpecInit /\ [][SetupNext]_vars
(***************************************************************************)
(* Properties of the service (under Spec).                                 *)
(***************************************************************************)
ConfiguredOrigin == "http://localhost:5173"
ACAO == "access-control-allow-origin"
ACAC == "access-control-allow-credentials"
ACAM == "access-control-allow-methods"
ACAH == "access-control-allow-headers"

Sent == {x \in inflight : x.stage = "sent"}
Header(x, k) == IF k \in DOMAIN x.resp.headers THEN x.resp.headers[k] ELSE None
IsHealthCheckGet(x) == x.req.method = "GET" /\ x.req.path = health_check_path
IsPreflight(x) ==
    x.req.method = "OPTIONS" /\ x.req.headers.origin # None /\ x.req.headers.acrm # None
HealthyBody == "{\"status\":\"healthy\"}"

\* C1: every response to GET /api/v1/health-check, whatever the request's
\* headers, has status 200 and the body {"status":"healthy"}; there is no
\* failure outcome.
C1_HealthCheckAlwaysHealthy ==
    \A x \in Sent :
        IsHealthCheckGet(x) => x.resp.status = 200 /\ x.resp.body = HealthyBody

\* C1 witness: a health-check GET carrying CORS headers and a cookie has been
\* answered.
C1_Witness ==
    \E x \in Sent :
        /\ IsHealthCheckGet(x)
        /\ x.req.headers.origin = "http://localhost:3000"
        /\ x.req.headers.cookie # None
        /\ x.resp.status = 200

\* C2: a response to a request with Origin: http://localhost:5173 carries
\* Access-Control-Allow-Origin: http://localhost:5173 and
\* Access-Control-Allow-Credentials: true.
C2_ConfiguredOriginAllowed ==
    \A x \in Sent :
        x.req.headers.origin = ConfiguredOrigin =>
            Header(x, ACAO) = ConfiguredOrigin /\ Header(x, ACAC) = "true"

\* C2 witness: an actual (non-preflight) GET from the configured origin has
\* been answered by the handler.
C2_Witness ==
    \E x \in Sent :
        /\ x.req.headers.origin = ConfiguredOrigin
        /\ IsHealthCheckGet(x)
        /\ x.resp.by = "health_check"

\* C3: no response to a request from another origin, actual or preflight,
\* carries an Access-Control-Allow-Origin header equal to that origin.
C3_OtherOriginNotAllowed ==
    \A x \in Sent :
        (x.req.headers.origin # None /\ x.req.headers.origin # ConfiguredOrigin) =>
            Header(x, ACAO) # x.req.headers.origin

\* C3 witness: a preflight from another origin has been refused.
C3_Witness ==
    \E x \in Sent :
        /\ IsPreflight(x)
        /\ x.req.headers.origin = "http://localhost:3000"
        /\ x.resp.status = 400

\* C4: a request to /api/v1/health-check whose method is not GET and that is
\* not a preflight gets 405 Method Not Allowed from the routing layer: not the
\* healthy payload, and nothing produced by the handler.
C4_OtherMethodsNotAllowed ==
    \A x \in Sent :
        (x.req.path = health_check_path /\ x.req.method # "GET" /\ ~IsPreflight(x)) =>
            /\ x.resp.status = 405
            /\ x.resp.by = "router"
            /\ x.resp.body # HealthyBody

\* C4 witness: a POST to the health-check path has been answered.
C4_Witness ==
    \E x \in Sent :
        /\ x.req.path = health_check_path
        /\ x.req.method = "POST"
        /\ x.resp.status = 405

\* The scenario of C5: preflight of the health-check from the configured
\* origin, asking for GET and naming no request headers.
C5_Scenario(x) ==
    /\ x.req.method = "OPTIONS"
    /\ x.req.path = health_check_path
    /\ x.req.headers.origin = ConfiguredOrigin
    /\ x.req.headers.acrm = "GET"
    /\ x.req.headers.acrh = None

\* C5 as stated: the preflight is answered 200 or 204 with
\* Access-Control-Allow-Origin: http://localhost:5173,
\* Access-Control-Allow-Credentials: true, Access-Control-Allow-Methods: *
\* and Access-Control-Allow-Headers: *.
C5_AsStated ==
    \A x \in Sent :
        C5_Scenario(x) =>
            /\ x.resp.status \in {200, 204}
            /\ Header(x, ACAO) = ConfiguredOrigin
            /\ Header(x, ACAC) = "true"
            /\ Header(x, ACAM) = "*"
            /\ Header(x, ACAH) = "*"

\* C5 amended: a preflight OPTIONS of the health-check from the configured
\* origin asking for GET is answered 200 with the allowed origin, credentials
\* true and Access-Control-Allow-Methods listing the seven methods the
\* wildcard stands for; Access-Control-Allow-Headers repeats the request's
\* Access-Control-Request-Headers and is absent when the request names none.
C5_PreflightAnswer ==
    \A x \in Sent :
        (/\ x.req.method = "OPTIONS"
         /\ x.req.path = health_check_path
         /\ x.req.headers.origin = ConfiguredOrigin
         /\ x.req.headers.acrm = "GET") =>
            /\ x.resp.status = 200
            /\ Header(x, ACAO) = ConfiguredOrigin
            /\ Header(x, ACAC) = "true"
            /\ Header(x, ACAM) = "DELETE, GET, HEAD, OPTIONS, PATCH, POST, PUT"
            /\ Header(x, ACAH) = x.req.headers.acrh

\* C5 witness: the scenario's preflight has been answered.
C5_Witness ==
    \E x \in Sent : C5_Scenario(x) /\ x.resp.by = "CORSMiddleware"

\* C6: all responses to GET /api/v1/health-check have the same bytes as body,
\* also those of requests served concurrently with others; equal requests get
\* equal responses, and serving requests leaves the application as built.
C6_IdempotentStateless ==
    /\ app = FastAPI
    /\ \A x, y \in Sent :
        /\ (IsHealthCheckGet(x) /\ IsHealthCheckGet(y)) => x.resp.body = y.resp.body
        /\ x.req = y.req => x.resp = y.resp

\* C6 witness: two different health-check GETs have been answered and are
\* held at once.
C6_Witness ==
    \E x, y \in Sent :
        /\ x # y
        /\ IsHealthCheckGet(x) /\ IsHealthCheckGet(y)
        /\ x.req.headers.origin = None
        /\ y.req.headers.origin = ConfiguredOrigin

\* C7: on every path and method, routed or not, a response to a request from
\* the configured origin allows that origin and credentials, and the policy of
\* the middleware stays the one built at startup: the one origin,
\* credentials, every method, every header.
C7_PolicyOnAllRoutes ==
    /\ app.user_middleware = <<CORSMiddleware>>
    /\ app.user_middleware[1].allow_origins = {ConfiguredOrigin}
    /\ app.user_middleware[1].allow_methods = Range(ALL_METHODS)
    /\ app.user_middleware[1].allow_all_headers
    /\ \A p \in Paths, m \in Methods :
        \A x \in Sent :
            (x.req.path = p /\ x.req.method = m
                /\ x.req.headers.origin = ConfiguredOrigin) =>
                    Header(x, ACAO) = ConfiguredOrigin /\ Header(x, ACAC) = "true"

\* C7 witness: requests from the configured origin to a path without a route
\* and with a method that is not allowed have both been answered.
C7_Witness ==
    \E x, y \in Sent :
        /\ x.req.headers.origin = ConfiguredOrigin /\ x.resp.status = 404
        /\ y.req.headers.origin = ConfiguredOrigin /\ y.resp.status = 405

(***************************************************************************)
(* Properties of the scaffolding script (under SetupSpec).                 *)
(***************************************************************************)
FilesMade == SelectSeq(made, LAMBDA e : e.kind = "file")
DirsMade == SelectSeq(made, LAMBDA e : e.kind = "dir")
NamesOf(seq) == [i \in DOMAIN seq |-> Name(seq[i].path)]
Printed(t) == t \in Range(out)

\* The project root created at the start of the run.
ProjectRoot == StartDir \o root

\* C9: every path the run creates lies inside the project root created at the
\* start, and none inside a second fantasy-football-app nested in that root.
C9_AllInsideProjectRoot ==
    \A i \in DOMAIN made :
        /\ IsPrefix(ProjectRoot, made[i].path)
        /\ ~IsPrefix(ProjectRoot \o root, made[i].path)

\* The names of the files create_file writes, in the order of the claim.
FileOrder ==
    <<"__init__.py", "main.py",
      "__init__.py", "__init__.py", "__init__.py", "__init__.py",
      "__init__.py", "__init__.py", "__init__.py",
      "requirements.txt",
      "backend.Dockerfile", "frontend.Dockerfile", "docker-compose.yml", "README.md">>

\* The files the run writes before it starts npm, where it writes them.
BackendFiles ==
    {ProjectRoot \o <<"backend", "app", "__init__.py">>,
     ProjectRoot \o <<"backend", "app", "main.py">>,
     ProjectRoot \o <<"backend", "requirements.txt">>}
    \cup {ProjectRoot \o <<"backend">> \o backend_dirs[i] \o <<"__init__.py">> :
            i \in DOMAIN backend_dirs}

LateNames == {"backend.Dockerfile", "frontend.Dockerfile", "docker-compose.yml", "README.md"}

\* C10: the files are written in one fixed order, the backend files and
\* requirements.txt before npm runs and the rest after; the success message is
\* printed only after npm succeeded and every file was written; a failed npm
\* ends the run at that step with an error, with no docker file, compose file
\* or README written and the backend files left on disk.
C10_OrderAndAbort ==
    /\ Len(FilesMade) <= Len(FileOrder)
    /\ NamesOf(FilesMade) = SubSeq(FileOrder, 1, Len(FilesMade))
    /\ npm = "none" => Len(FilesMade) <= 10
    /\ npm # "none" => (Len(FilesMade) >= 10 /\ BackendFiles \subseteq files
                         /\ Printed("Setting up frontend with Vite..."))
    /\ Len(FilesMade) > 10 =>
          (npm = "ok" /\ {Name(frontend_dirs[i]) : i \in DOMAIN frontend_dirs}
                            \subseteq Range(NamesOf(DirsMade)))
    /\ Printed(SuccessMessage) => (npm = "ok" /\ NamesOf(FilesMade) = FileOrder)
    /\ npm = "failed" =>
          /\ pc = Raised
          /\ ~Printed(SuccessMessage)
          /\ Range(NamesOf(FilesMade)) \cap LateNames = {}
          /\ BackendFiles \subseteq files

\* C10 witness: npm has failed and the run has ended there, the backend files
\* on disk.
C10_Witness ==
    /\ npm = "failed"
    /\ pc = Raised
    /\ BackendFiles \subseteq files
=============================================================================
